---- MODULE Spec2Model ----
(***************************************************************************)
(* The expiry-aware upsert handlers of the URL shortener                   *)
(* (src/unnamed/part_000): POST /shorten and POST /urls/batch over the     *)
(* PocketBase collection 'urls', and the report of GET /stats/active.      *)
(*                                                                         *)
(* Time is the integer count of milliseconds that Date.getTime() returns.  *)
(* The store keeps `created` as an ISO date text with millisecond          *)
(* precision; new Date(text).getTime() and toISOString() are exact         *)
(* inverses on whole milliseconds, so `created` is held as that integer.   *)
(* The `expiry` field is held as the text the handlers write, character by *)
(* character, and read back with parseInt.                                 *)
(*                                                                         *)
(* In the specifications Spec, SpecNoRepeat, SpecStats and SpecFail a      *)
(* handler runs to completion before the next request is taken (the        *)
(* requests do not overlap); in SpecOverlap the lookup and the write of a  *)
(* POST /shorten are separate steps, and `pending` holds the requests that *)
(* have looked up and not yet written.                                     *)
(*                                                                         *)
(* SpecIndex is the edition of src/index.js, whose handlers keep the       *)
(* default limit in the process-wide variable DEFAULT_TIME_LIMIT (here     *)
(* defaultTimeLimit, a constant of the other specifications) and store no  *)
(* expiry with a record.                                                   *)
(* The store is the external collaborator: getFullList returns the         *)
(* matching records in insertion order, create assigns id and stamps       *)
(* created within the millisecond of the request, update is a partial      *)
(* update that retains the fields it is not given.                         *)
(* nanoid never repeats a code (the generator's entropy assumption); which *)
(* unused code it draws matters to no handler, so the k-th draw is the     *)
(* k-th code of the alphabet's enumeration.                                *)
(***************************************************************************)
EXTENDS Integers, Sequences, FiniteSets

VARIABLES store, clock, issued, pending, defaultTimeLimit

vars == <<store, clock, issued, pending, defaultTimeLimit>>

(* ------------------------------ bounds -------------------------------- *)

\* The clock is observed at the start of a default window and up to
\* MaxFine milliseconds after it.
MaxFine == 1
\* Number of short codes nanoid may hand out in one behaviour.
MaxCodes == 2

(* --------------------------- program constants ------------------------ *)

DEFAULT_TIME_LIMIT == 3600000

\* nanoid(6)
CodeSize == 6

\* A slice of nanoid's url-safe alphabet.
Alphabet == <<"A", "b", "7", "_">>

(* ----------------------------- JS numbers ----------------------------- *)

\* A JS number is an integer or NaN.
Num(n) == [nan |-> FALSE, n |-> n]
NaN == [nan |-> TRUE, n |-> 0]

\* a + b
Plus(a, b) == IF a.nan \/ b.nan THEN NaN ELSE Num(a.n + b.n)

\* a > b (false whenever an operand is NaN)
Gt(a, b) == ~a.nan /\ ~b.nan /\ a.n > b.n

DigitChars == <<"0", "1", "2", "3", "4", "5", "6", "7", "8", "9">>

IsDigit(c) == \E d \in 1..10 : DigitChars[d] = c

DigitVal(c) == (CHOOSE d \in 1..10 : DigitChars[d] = c) - 1

RECURSIVE NatToString(_)
NatToString(n) ==
    IF n < 10 THEN <<DigitChars[n + 1]>>
    ELSE NatToString(n \div 10) \o <<DigitChars[(n % 10) + 1]>>

\* Number.prototype.toString()
NumberToString(x) ==
    IF x.nan THEN <<"N", "a", "N">>
    ELSE IF x.n < 0 THEN <<"-">> \o NatToString(0 - x.n)
    ELSE NatToString(x.n)

\* The value of the longest run of decimal digits of s starting at i, as
\* <<digits consumed, value>>.
RECURSIVE DigitRun(_, _, _, _)
DigitRun(s, i, k, acc) ==
    IF i <= Len(s) /\ IsDigit(s[i])
    THEN DigitRun(s, i + 1, k + 1, acc * 10 + DigitVal(s[i]))
    ELSE <<k, acc>>

\* parseInt(text): optional sign, then the leading decimal digits; NaN
\* when there is none.  (The texts of the model carry no white space and
\* no 0x prefix.)
parseIntText(s) ==
    LET signed == Len(s) > 0 /\ s[1] \in {"-", "+"}
        run == DigitRun(s, IF signed THEN 2 ELSE 1, 0, 0)
    IN IF run[1] = 0 THEN NaN
       ELSE IF signed /\ s[1] = "-" THEN Num(0 - run[2])
       ELSE Num(run[2])

(* -------------------------- request bodies ---------------------------- *)

\* The `expiry` member of a JSON body: absent, a number or a string.
Absent == [kind |-> "absent", num |-> 0, str |-> <<>>]
JNum(n) == [kind |-> "num", num |-> n, str |-> <<>>]
JStr(s) == [kind |-> "str", num |-> 0, str |-> s]

\* JS truthiness of the member: 0 and "" are falsy like undefined.
Truthy(e) ==
    \/ e.kind = "num" /\ e.num # 0
    \/ e.kind = "str" /\ e.str # <<>>

\* parseInt(expiry): a number is converted to its text first.
parseInt(e) ==
    IF e.kind = "num" THEN parseIntText(NumberToString(Num(e.num)))
    ELSE parseIntText(e.str)

Links == {"u1", "u2"}

\* A missing link reads as the falsy "".
NoLink == ""

\* The expiry members the requests of a behaviour carry: none, a window
\* longer than the default, a text that is no number.
Expiries ==
    {Absent, JNum(DEFAULT_TIME_LIMIT + 1), JStr(<<"x">>)}

\* The expiry members a request is examined with in every reachable
\* state: those above, zero (which leaves the store as an absent one
\* does), a short window, a negative one, and numeric texts.
AnyExpiry ==
    Expiries \cup {JNum(0), JNum(1), JNum(0 - 1), JStr(<<"0">>),
                   JStr(<<"1", "x">>)}

RECURSIVE SeqsUpTo(_, _)
SeqsUpTo(S, n) ==
    IF n = 0 THEN {<<>>}
    ELSE LET shorter == SeqsUpTo(S, n - 1)
         IN shorter \cup {Append(q, x) : q \in shorter, x \in S}

\* The links arrays of the batch requests: empty, one link, two distinct
\* links, one link twice.
LinkArrays == SeqsUpTo(Links, 2)

Repeats(q) == \E i, j \in 1..Len(q) : i # j /\ q[i] = q[j]

(* ------------------------------ the store ----------------------------- *)

\* A filter that matches no record.
getFullListNoMatch(st, links) == <<>>

\* getFullList({ filter }) with filter originalUrl="l1" || originalUrl="l2"...
getFullList(st, links) ==
    SelectSeq(st, LAMBDA r : \E i \in 1..Len(links) : r.originalUrl = links[i])

\* create(data): the store assigns id and stamps created with its clock.
create(st, data, stamp) ==
    Append(st, [id |-> Len(st) + 1,
                originalUrl |-> data.originalUrl,
                shortCode |-> data.shortCode,
                expiry |-> data.expiry,
                created |-> stamp])

\* update(id, fields): partial update, the other fields are retained.
update(st, id, fields) ==
    [i \in 1..Len(st) |->
        IF st[i].id = id
        THEN [f \in DOMAIN st[i] |->
                 IF f \in DOMAIN fields THEN fields[f] ELSE st[i][f]]
        ELSE st[i]]

\* The record a create or update call resolves to.
byId(st, id) == st[CHOOSE i \in 1..Len(st) : st[i].id = id]

(* --------------------------- code generator --------------------------- *)

RECURSIVE Pow(_, _)
Pow(b, e) == IF e = 0 THEN 1 ELSE b * Pow(b, e - 1)

\* A generator that hands out one code again and again.
nanoidConstant(size, k) == [i \in 1..size |-> Alphabet[1]]

\* nanoid(size), the k-th draw (k counts the codes handed out before).
nanoid(size, k) ==
    [i \in 1..size |->
        Alphabet[((k \div Pow(Len(Alphabet), size - i)) % Len(Alphabet)) + 1]]

(* ------------------------------ responses ----------------------------- *)

NoCode == <<>>

Json(status, shortCode, message, results) ==
    [status |-> status, shortCode |-> shortCode, message |-> message,
     results |-> results]

\* const effectiveExpiry = expiry ? parseInt(expiry) : DEFAULT_TIME_LIMIT
effectiveExpiry(expiry) ==
    IF Truthy(expiry) THEN parseInt(expiry) ELSE Num(DEFAULT_TIME_LIMIT)

(* ---------------------------- POST /shorten --------------------------- *)

\* a >= b (false whenever an operand is NaN)
Ge(a, b) == ~a.nan /\ ~b.nan /\ a.n >= b.n

\* The comparison taken with >= instead of >.
shortenExpiredAtBoundary(now, created, eff) ==
    Ge(Num(now), Plus(Num(created), eff))

\* expiryTime = createdTime.getTime() + effectiveExpiry;
\* now.getTime() > expiryTime
shortenExpired(now, created, eff) == Gt(Num(now), Plus(Num(created), eff))

\* A rotation that also moves created past every instant observed, so
\* that the record is inside its window again.
rotateFieldsRestarting(newShortCode, eff) ==
    [shortCode |-> newShortCode, expiry |-> NumberToString(eff),
     created |-> 2 * DEFAULT_TIME_LIMIT]

\* The fields of the update of an expired record.
rotateFields(newShortCode, eff) ==
    [shortCode |-> newShortCode, expiry |-> NumberToString(eff)]

\* A refresh that leaves created alone.
refreshFieldsNoCreated(now, eff) == [expiry |-> NumberToString(eff)]

\* The fields of the update of an active record.
refreshFields(now, eff) ==
    [created |-> now, expiry |-> NumberToString(eff)]

\* A create that stores the default whatever the request carries.
createDataDefaultExpiry(link, shortCode, eff) ==
    [originalUrl |-> link, shortCode |-> shortCode,
     expiry |-> NumberToString(Num(DEFAULT_TIME_LIMIT))]

\* const data = { originalUrl: link, shortCode, expiry }
createData(link, shortCode, eff) ==
    [originalUrl |-> link, shortCode |-> shortCode,
     expiry |-> NumberToString(eff)]

\* The handler run to completion on store st at instant now.  The result
\* carries the store, the codes handed out, the response and the branch
\* taken.
Shorten(st, iss, link, expiry, now) ==
    IF link = NoLink
    THEN [store |-> st, issued |-> iss, action |-> "rejected",
          resp |-> Json(400, NoCode, "Link is required.", <<>>)]
    ELSE
    LET eff == effectiveExpiry(expiry)
        existingRecords == getFullList(st, <<link>>)
    IN IF Len(existingRecords) > 0
       THEN LET record == existingRecords[1]
            IN IF shortenExpired(now, record.created, eff)
               THEN LET newShortCode == nanoid(CodeSize, iss)
                        st2 == update(st, record.id,
                                      rotateFields(newShortCode, eff))
                    IN [store |-> st2, issued |-> iss + 1,
                        action |-> "rotated",
                        resp |-> Json(200, byId(st2, record.id).shortCode,
                                      "Existing URL expired; updated with new short code.",
                                      <<>>)]
               ELSE LET st2 == update(st, record.id, refreshFields(now, eff))
                    IN [store |-> st2, issued |-> iss,
                        action |-> "refreshed",
                        resp |-> Json(200, byId(st2, record.id).shortCode,
                                      "Existing URL is still active; expiry and created updated, returning same short code.",
                                      <<>>)]
       ELSE LET shortCode == nanoid(CodeSize, iss)
                st2 == create(st, createData(link, shortCode, eff), now)
            IN [store |-> st2, issued |-> iss + 1, action |-> "created",
                resp |-> Json(200, st2[Len(st2)].shortCode,
                              "New URL record created.", <<>>)]

\* The handler from its first await on: it has read `now` and been
\* handed existingRecords by the list call, and meets the store st, which
\* requests served in between may have written to.  The store stamps a
\* create with its own clock, `stamp`.
ShortenOn(st, iss, link, expiry, now, existingRecords, stamp) ==
    LET eff == effectiveExpiry(expiry)
    IN IF Len(existingRecords) > 0
       THEN LET record == existingRecords[1]
            IN IF shortenExpired(now, record.created, eff)
               THEN LET newShortCode == nanoid(CodeSize, iss)
                        st2 == update(st, record.id,
                                      rotateFields(newShortCode, eff))
                    IN [store |-> st2, issued |-> iss + 1,
                        action |-> "rotated",
                        resp |-> Json(200, byId(st2, record.id).shortCode,
                                      "Existing URL expired; updated with new short code.",
                                      <<>>)]
               ELSE LET st2 == update(st, record.id, refreshFields(now, eff))
                    IN [store |-> st2, issued |-> iss,
                        action |-> "refreshed",
                        resp |-> Json(200, byId(st2, record.id).shortCode,
                                      "Existing URL is still active; expiry and created updated, returning same short code.",
                                      <<>>)]
       ELSE LET shortCode == nanoid(CodeSize, iss)
                st2 == create(st, createData(link, shortCode, eff), stamp)
            IN [store |-> st2, issued |-> iss + 1, action |-> "created",
                resp |-> Json(200, st2[Len(st2)].shortCode,
                              "New URL record created.", <<>>)]

(* --------------------------- POST /urls/batch ------------------------- *)

\* The `links` member of a JSON body: an array of links, or anything else.
Arr(items) == [array |-> TRUE, items |-> items]
NotArray == [array |-> FALSE, items |-> <<>>]

\* The map of originalUrl to the most recent record: a later record
\* replaces the one kept only when its created is strictly greater.
RECURSIVE existingMap(_, _, _)
existingMap(recs, i, m) ==
    IF i > Len(recs) THEN m
    ELSE LET record == recs[i]
             url == record.originalUrl
         IN IF url \notin DOMAIN m \/ record.created > m[url].created
            THEN existingMap(recs, i + 1,
                     [x \in DOMAIN m \cup {url} |->
                         IF x = url THEN record ELSE m[x]])
            ELSE existingMap(recs, i + 1, m)

EmptyMap == [x \in {} |-> 0]

\* const expiryDuration = parseInt(record.expiry) || DEFAULT_TIME_LIMIT
expiryDuration(record) ==
    LET parsed == parseIntText(record.expiry)
    IN IF parsed.nan \/ parsed.n = 0 THEN Num(DEFAULT_TIME_LIMIT)
       ELSE parsed

\* The comparison taken with >= instead of >.
batchExpiredAtBoundary(now, record) ==
    Ge(Num(now), Plus(Num(record.created), expiryDuration(record)))

\* expiryTime = createdTime.getTime() + expiryDuration;
\* now.getTime() > expiryTime
batchExpired(now, record) ==
    Gt(Num(now), Plus(Num(record.created), expiryDuration(record)))

\* One iteration of `for (const link of links)`; acc carries the store,
\* the codes handed out and the results so far.
BatchItem(acc, link, map, eff, now) ==
    IF link \in DOMAIN map
    THEN LET record == map[link]
         IN IF batchExpired(now, record)
            THEN LET newShortCode == nanoid(CodeSize, acc.issued)
                     st2 == update(acc.store, record.id,
                                   [shortCode |-> newShortCode,
                                    expiry |-> NumberToString(eff)])
                 IN [store |-> st2, issued |-> acc.issued + 1,
                     results |-> Append(acc.results,
                         [link |-> link,
                          shortCode |-> byId(st2, record.id).shortCode,
                          action |-> "updated"])]
            ELSE LET st2 == update(acc.store, record.id,
                                   [created |-> now,
                                    expiry |-> NumberToString(eff)])
                 IN [store |-> st2, issued |-> acc.issued,
                     results |-> Append(acc.results,
                         [link |-> link,
                          shortCode |-> byId(st2, record.id).shortCode,
                          action |-> "updated"])]
    ELSE LET shortCode == nanoid(CodeSize, acc.issued)
             st2 == create(acc.store, [originalUrl |-> link,
                                       shortCode |-> shortCode,
                                       expiry |-> NumberToString(eff)],
                           now)
         IN [store |-> st2, issued |-> acc.issued + 1,
             results |-> Append(acc.results,
                 [link |-> link, shortCode |-> st2[Len(st2)].shortCode,
                  action |-> "created"])]

\* A loop that looks the records up again before every item, so that an
\* item sees the writes of the items before it.
RECURSIVE BatchLoopRereading(_, _, _, _, _, _)
BatchLoopRereading(acc, links, i, map, eff, now) ==
    IF i > Len(links) THEN acc
    ELSE BatchLoopRereading(
             BatchItem(acc, links[i],
                       existingMap(getFullList(acc.store, links), 1, EmptyMap),
                       eff, now),
             links, i + 1, map, eff, now)

\* A loop that takes the links from the last to the first.
RECURSIVE BatchLoopBackwards(_, _, _, _, _, _)
BatchLoopBackwards(acc, links, i, map, eff, now) ==
    IF i > Len(links) THEN acc
    ELSE BatchLoopBackwards(
             BatchItem(acc, links[Len(links) + 1 - i], map, eff, now),
             links, i + 1, map, eff, now)

RECURSIVE BatchLoop(_, _, _, _, _, _)
BatchLoop(acc, links, i, map, eff, now) ==
    IF i > Len(links) THEN acc
    ELSE BatchLoop(BatchItem(acc, links[i], map, eff, now),
                   links, i + 1, map, eff, now)

\* The handler run to completion on store st at instant now.
Batch(st, iss, links, expiry, now) ==
    IF ~links.array
    THEN [store |-> st, issued |-> iss,
          resp |-> Json(400, NoCode, "Links must be provided as an array.",
                        <<>>)]
    ELSE
    LET existingRecords ==
            IF Len(links.items) > 0 THEN getFullList(st, links.items)
            ELSE <<>>
        map == existingMap(existingRecords, 1, EmptyMap)
        eff == effectiveExpiry(expiry)
        done == BatchLoop([store |-> st, issued |-> iss, results |-> <<>>],
                          links.items, 1, map, eff, now)
    IN [store |-> done.store, issued |-> done.issued,
        resp |-> Json(200, NoCode, "", done.results)]

(* ------------------------- failing store calls ------------------------ *)

\* A handler awaits its store calls one after the other inside one
\* try block; a call that rejects throws, and the catch block answers 500.
\* failAt numbers the store call of the request that rejects (0: none
\* does).  A rejected call leaves the store as it was.  `calls` lists the
\* store calls the handler made, the rejected one included: the list call
\* as item 0, the update or create of the i-th link as item i.

ListCall == [op |-> "getFullList", item |-> 0]
WriteCall(i) == [op |-> "write", item |-> i]

InternalError == Json(500, NoCode, "Internal server error.", <<>>)

\* POST /shorten: the list call is call 1, the update or create call 2.
ShortenFailing(st, iss, link, expiry, now, failAt) ==
    IF link = NoLink
    THEN [store |-> st, issued |-> iss, resp |-> Shorten(st, iss, link, expiry, now).resp,
          calls |-> <<>>]
    ELSE IF failAt = 1
    THEN [store |-> st, issued |-> iss, resp |-> InternalError,
          calls |-> <<ListCall>>]
    ELSE LET r == Shorten(st, iss, link, expiry, now)
         IN IF failAt = 2
            THEN [store |-> st, issued |-> r.issued, resp |-> InternalError,
                  calls |-> <<ListCall, WriteCall(1)>>]
            ELSE [store |-> r.store, issued |-> r.issued, resp |-> r.resp,
                  calls |-> <<ListCall, WriteCall(1)>>]

\* A validation that lets every body through.
linksNeverRejected(links) == FALSE

\* if (!links || !Array.isArray(links))
linksRejected(links) == ~links.array

\* A loop whose iterations catch the rejection of their own call and go
\* on with the next link.
RECURSIVE BatchLoopFailingPerItem(_, _, _, _, _, _, _)
BatchLoopFailingPerItem(acc, links, i, map, eff, now, failAt) ==
    IF i > Len(links) THEN acc
    ELSE LET done == BatchItem([store |-> acc.store, issued |-> acc.issued,
                                results |-> acc.results],
                               links[i], map, eff, now)
             calls == Append(acc.calls, WriteCall(i))
         IN IF Len(calls) = failAt
            THEN BatchLoopFailingPerItem(
                     [acc EXCEPT !.issued = done.issued, !.calls = calls,
                                 !.failed = TRUE],
                     links, i + 1, map, eff, now, failAt)
            ELSE BatchLoopFailingPerItem(
                     [store |-> done.store, issued |-> done.issued,
                      results |-> done.results, calls |-> calls,
                      failed |-> acc.failed],
                     links, i + 1, map, eff, now, failAt)

\* `for (const link of links)` with its awaited calls: the rejection of
\* the call of one iteration leaves the loop.  (The code of the iteration
\* before its call has run: nanoid has handed out its code.)
RECURSIVE BatchLoopFailing(_, _, _, _, _, _, _)
BatchLoopFailing(acc, links, i, map, eff, now, failAt) ==
    IF i > Len(links) \/ acc.failed THEN acc
    ELSE LET done == BatchItem([store |-> acc.store, issued |-> acc.issued,
                                results |-> acc.results],
                               links[i], map, eff, now)
             calls == Append(acc.calls, WriteCall(i))
         IN IF Len(calls) = failAt
            THEN BatchLoopFailing(
                     [acc EXCEPT !.issued = done.issued, !.calls = calls,
                                 !.failed = TRUE],
                     links, i + 1, map, eff, now, failAt)
            ELSE BatchLoopFailing(
                     [store |-> done.store, issued |-> done.issued,
                      results |-> done.results, calls |-> calls,
                      failed |-> FALSE],
                     links, i + 1, map, eff, now, failAt)

\* POST /urls/batch: the list call (made when links is not empty) is the
\* first call, the calls of the loop follow.
BatchFailing(st, iss, links, expiry, now, failAt) ==
    IF linksRejected(links)
    THEN [store |-> st, issued |-> iss,
          resp |-> Json(400, NoCode, "Links must be provided as an array.",
                        <<>>),
          calls |-> <<>>]
    ELSE
    LET listed == IF Len(links.items) > 0 THEN <<ListCall>> ELSE <<>>
    IN IF Len(listed) > 0 /\ failAt = 1
       THEN [store |-> st, issued |-> iss, resp |-> InternalError,
             calls |-> listed]
       ELSE
       LET existingRecords ==
               IF Len(links.items) > 0 THEN getFullList(st, links.items)
               ELSE <<>>
           map == existingMap(existingRecords, 1, EmptyMap)
           eff == effectiveExpiry(expiry)
           done == BatchLoopFailing(
                       [store |-> st, issued |-> iss, results |-> <<>>,
                        calls |-> listed, failed |-> FALSE],
                       links.items, 1, map, eff, now, failAt)
       IN [store |-> done.store, issued |-> done.issued,
           resp |-> IF done.failed THEN InternalError
                    ELSE Json(200, NoCode, "", done.results),
           calls |-> done.calls]

(* --------------------------- GET /stats/active ------------------------ *)

\* Milliseconds of a UTC calendar day.
MsPerDay == 86400000

\* new Date(record.created).toISOString().split('T')[0]: the UTC calendar
\* date of an instant, held as the count of whole days since 1970-01-01.
isoDate(created) == created \div MsPerDay

\* A filter that takes every record one default window after created as
\* inactive, whatever expiry it stores.
statsActiveByDefault(now, record) ==
    Gt(Plus(Num(record.created), Num(DEFAULT_TIME_LIMIT)), Num(now))

\* expiryDuration = parseInt(record.expiry) || DEFAULT_TIME_LIMIT;
\* createdTime.getTime() + expiryDuration > now.getTime()
statsActive(now, record) ==
    Gt(Plus(Num(record.created), expiryDuration(record)), Num(now))

\* groupByDate[date] = (groupByDate[date] || 0) + 1 over the active
\* records, then Object.keys(groupByDate).map(date => ({date, count})):
\* one entry per date, in the order the dates first occur.
RECURSIVE groupByDate(_, _, _)
groupByDate(recs, i, groups) ==
    IF i > Len(recs) THEN groups
    ELSE LET date == isoDate(recs[i].created)
         IN IF \E g \in 1..Len(groups) : groups[g].date = date
            THEN groupByDate(recs, i + 1,
                     [g \in 1..Len(groups) |->
                         IF groups[g].date = date
                         THEN [date |-> date, count |-> groups[g].count + 1]
                         ELSE groups[g]])
            ELSE groupByDate(recs, i + 1,
                     Append(groups, [date |-> date, count |-> 1]))

\* The handler on store st at instant now; it writes nothing.
StatsActive(st, now) ==
    LET records == st
        activeRecords == SelectSeq(records, LAMBDA r : statsActive(now, r))
    IN [status |-> 200,
        total |-> Len(activeRecords),
        groups |-> groupByDate(activeRecords, 1, <<>>),
        activeRecords |-> activeRecords]

(* ------------------------ src/index.js edition ----------------------- *)

\* a - b
Minus(a, b) == IF a.nan \/ b.nan THEN NaN ELSE Num(a.n - b.n)

\* a <= b (false whenever an operand is NaN)
Le(a, b) == ~a.nan /\ ~b.nan /\ a.n <= b.n

\* The number the `expiry` member is converted to by the subtraction
\* `expiry - now`: a text is a number only if all of it is one.  (The
\* texts of the model carry no white space, fraction or exponent.)
ToNumber(e) ==
    IF e.kind = "num" THEN Num(e.num)
    ELSE LET s == e.str
             signed == Len(s) > 0 /\ s[1] \in {"-", "+"}
             first == IF signed THEN 2 ELSE 1
             run == DigitRun(s, first, 0, 0)
         IN IF Len(s) = 0 THEN Num(0)
            ELSE IF run[1] = 0 \/ run[1] # Len(s) + 1 - first THEN NaN
            ELSE IF signed /\ s[1] = "-" THEN Num(0 - run[2])
            ELSE Num(run[2])

\* A limit that a request does not write to.
limitKept(limit, expiry, now) == limit

\* if (expiry) { DEFAULT_TIME_LIMIT = expiry - now; }
limitAfter(limit, expiry, now) ==
    IF Truthy(expiry) THEN Minus(ToNumber(expiry), Num(now)) ELSE limit

\* const data = { originalUrl: link, shortCode }: no expiry is stored.
createDataIndex(link, shortCode) ==
    [originalUrl |-> link, shortCode |-> shortCode, expiry |-> <<>>]

\* timeDiff = now - createdTime; timeDiff > DEFAULT_TIME_LIMIT
olderThanLimit(now, record, limit) ==
    Gt(Minus(Num(now), Num(record.created)), limit)

\* POST /shorten of src/index.js, run to completion.
ShortenIndex(st, iss, limit, link, expiry, now) ==
    IF link = NoLink
    THEN [store |-> st, issued |-> iss, limit |-> limit,
          action |-> "rejected",
          resp |-> Json(400, NoCode, "Link is required.", <<>>)]
    ELSE
    LET lim == limitAfter(limit, expiry, now)
        existingRecords == getFullList(st, <<link>>)
    IN IF Len(existingRecords) > 0 /\ olderThanLimit(now, existingRecords[1], lim)
       THEN LET record == existingRecords[1]
                newShortCode == nanoid(CodeSize, iss)
            IN [store |-> update(st, record.id, [shortCode |-> newShortCode]),
                issued |-> iss + 1, limit |-> lim, action |-> "rotated",
                resp |-> Json(200, newShortCode,
                              "Existing URL was older than 1 hour; updated with new short code.",
                              <<>>)]
       ELSE LET shortCode == nanoid(CodeSize, iss)
                st2 == create(st, createDataIndex(link, shortCode), now)
            IN [store |-> st2, issued |-> iss + 1, limit |-> lim,
                action |-> "created",
                resp |-> Json(200, st2[Len(st2)].shortCode,
                              IF Len(existingRecords) > 0
                              THEN "Existing URL is within 1 hour; new URL record created."
                              ELSE "New URL record created.",
                              <<>>)]

\* One iteration of the loop of POST /urls/batch of src/index.js.
BatchItemIndex(acc, link, map, limit, now) ==
    IF link \in DOMAIN map /\ olderThanLimit(now, map[link], limit)
    THEN LET newShortCode == nanoid(CodeSize, acc.issued)
         IN [store |-> update(acc.store, map[link].id,
                              [shortCode |-> newShortCode]),
             issued |-> acc.issued + 1,
             results |-> Append(acc.results,
                 [link |-> link, shortCode |-> newShortCode,
                  action |-> "updated"])]
    ELSE LET shortCode == nanoid(CodeSize, acc.issued)
         IN [store |-> create(acc.store, createDataIndex(link, shortCode),
                              now),
             issued |-> acc.issued + 1,
             results |-> Append(acc.results,
                 [link |-> link, shortCode |-> shortCode,
                  action |-> "created"])]

RECURSIVE BatchLoopIndex(_, _, _, _, _, _)
BatchLoopIndex(acc, links, i, map, limit, now) ==
    IF i > Len(links) THEN acc
    ELSE BatchLoopIndex(BatchItemIndex(acc, links[i], map, limit, now),
                        links, i + 1, map, limit, now)

\* POST /urls/batch of src/index.js, run to completion.
BatchIndex(st, iss, limit, links, expiry, now) ==
    IF ~links.array
    THEN [store |-> st, issued |-> iss, limit |-> limit,
          resp |-> Json(400, NoCode, "Links must be provided as an array.",
                        <<>>)]
    ELSE
    LET existingRecords ==
            IF Len(links.items) > 0 THEN getFullList(st, links.items)
            ELSE <<>>
        map == existingMap(existingRecords, 1, EmptyMap)
        lim == limitAfter(limit, expiry, now)
        done == BatchLoopIndex([store |-> st, issued |-> iss,
                                results |-> <<>>],
                               links.items, 1, map, lim, now)
    IN [store |-> done.store, issued |-> done.issued, limit |-> lim,
        resp |-> Json(200, NoCode, "", done.results)]

\* return now - createdTime <= DEFAULT_TIME_LIMIT
statsActiveIndex(now, record, limit) ==
    Le(Minus(Num(now), Num(record.created)), limit)

\* GET /stats/active of src/index.js; it writes nothing.
StatsActiveIndex(st, limit, now) ==
    LET activeRecords ==
            SelectSeq(st, LAMBDA r : statsActiveIndex(now, r, limit))
    IN [status |-> 200,
        total |-> Len(activeRecords),
        groups |-> groupByDate(activeRecords, 1, <<>>),
        activeRecords |-> activeRecords]

(* ----------------------------- the machine ---------------------------- *)

\* The default windows the clock is observed in.
Windows == {0, 1}

\* The instants the model observes.
Instants ==
    {h * DEFAULT_TIME_LIMIT + f : h \in Windows, f \in 0..MaxFine}

\* The requests that may be in progress at once, and the state of one
\* that is not.
Slots == {1, 2}
Idle == [busy |-> FALSE]

Init ==
    /\ store = <<>>
    /\ clock = 0
    /\ issued = 0
    /\ pending = [p \in Slots |-> Idle]
    /\ defaultTimeLimit = Num(DEFAULT_TIME_LIMIT)

\* Time passes between requests.
Tick ==
    \E t \in Instants :
        /\ t > clock
        /\ clock' = t
        /\ UNCHANGED <<store, issued, pending, defaultTimeLimit>>

ShortenReq ==
    \E link \in Links \cup {NoLink}, expiry \in Expiries :
        LET r == Shorten(store, issued, link, expiry, clock)
        IN /\ r.issued <= MaxCodes
           /\ store' = r.store
           /\ issued' = r.issued
           /\ UNCHANGED <<clock, pending, defaultTimeLimit>>

BatchOf(arrays) ==
    \E links \in arrays, expiry \in Expiries :
        LET r == Batch(store, issued, links, expiry, clock)
        IN /\ r.issued <= MaxCodes
           /\ store' = r.store
           /\ issued' = r.issued
           /\ UNCHANGED <<clock, pending, defaultTimeLimit>>

BatchReq == BatchOf({Arr(q) : q \in LinkArrays} \cup {NotArray})

Next == Tick \/ ShortenReq \/ BatchReq

Spec == Init /\ [][Next]_vars

\* The behaviours in which no batch repeats a link in its links array.
BatchReqNoRepeat ==
    BatchOf({Arr(q) : q \in {a \in LinkArrays : ~Repeats(a)}} \cup {NotArray})

NextNoRepeat == Tick \/ ShortenReq \/ BatchReqNoRepeat

SpecNoRepeat == Init /\ [][NextNoRepeat]_vars

\* The behaviours made of POST /urls/batch requests alone.
NextBatch == Tick \/ BatchReq

SpecBatch == Init /\ [][NextBatch]_vars

\* The behaviours the report of GET /stats/active is examined in: the
\* clock is also observed in the last window of the first UTC day and the
\* first window of the second, and POST /shorten may carry the text "0".
StatsWindows == {0, 1, 23, 24}

StatsInstants ==
    {h * DEFAULT_TIME_LIMIT + f : h \in StatsWindows, f \in 0..MaxFine}

TickStats ==
    \E t \in StatsInstants :
        /\ t > clock
        /\ clock' = t
        /\ UNCHANGED <<store, issued, pending, defaultTimeLimit>>

StatsExpiries == Expiries \cup {JStr(<<"0">>)}

ShortenReqStats ==
    \E link \in Links \cup {NoLink}, expiry \in StatsExpiries :
        LET r == Shorten(store, issued, link, expiry, clock)
        IN /\ r.issued <= MaxCodes
           /\ store' = r.store
           /\ issued' = r.issued
           /\ UNCHANGED <<clock, pending, defaultTimeLimit>>

NextStats == TickStats \/ ShortenReqStats \/ BatchReq

SpecStats == Init /\ [][NextStats]_vars

\* The behaviours in which a store call of a batch may reject: failAt
\* ranges over no call (0) and the calls of a batch of two links.
FailAts == 0..3

BatchMayFailReq ==
    \E q \in LinkArrays, failAt \in FailAts :
        LET r == BatchFailing(store, issued, Arr(q), Absent, clock, failAt)
        IN /\ r.issued <= MaxCodes
           /\ store' = r.store
           /\ issued' = r.issued
           /\ UNCHANGED <<clock, pending, defaultTimeLimit>>

NextFail == Tick \/ ShortenReq \/ BatchMayFailReq

SpecFail == Init /\ [][NextFail]_vars

\* Overlapping POST /shorten requests: a request reads `now`, awaits the
\* list call, and, once the event loop resumes it, decides on the records
\* it was handed and awaits its update or create.  Other requests are
\* served between the two steps.
\* The overlapping requests carry no expiry.
OverlapExpiries == {Absent}

ShortenLookup(p) ==
    /\ ~pending[p].busy
    /\ \E link \in Links, expiry \in OverlapExpiries :
          pending' = [pending EXCEPT ![p] =
                         [busy |-> TRUE, link |-> link, expiry |-> expiry,
                          now |-> clock,
                          existingRecords |-> getFullList(store, <<link>>)]]
    /\ UNCHANGED <<store, clock, issued, defaultTimeLimit>>

ShortenWrite(p) ==
    /\ pending[p].busy
    /\ LET q == pending[p]
           r == ShortenOn(store, issued, q.link, q.expiry, q.now,
                          q.existingRecords, clock)
       IN /\ r.issued <= MaxCodes
          /\ store' = r.store
          /\ issued' = r.issued
    /\ pending' = [pending EXCEPT ![p] = Idle]
    /\ UNCHANGED <<clock, defaultTimeLimit>>

NextOverlap ==
    \/ Tick
    \/ \E p \in Slots : ShortenLookup(p)
    \/ \E p \in Slots : ShortenWrite(p)

SpecOverlap == Init /\ [][NextOverlap]_vars

\* The requests of the src/index.js edition.
ShortenReqIndex ==
    \E link \in Links \cup {NoLink}, expiry \in Expiries :
        LET r == ShortenIndex(store, issued, defaultTimeLimit, link, expiry,
                              clock)
        IN /\ r.issued <= MaxCodes
           /\ store' = r.store
           /\ issued' = r.issued
           /\ defaultTimeLimit' = r.limit
           /\ UNCHANGED <<clock, pending>>

BatchReqIndex ==
    \E links \in {Arr(q) : q \in LinkArrays} \cup {NotArray},
       expiry \in Expiries :
        LET r == BatchIndex(store, issued, defaultTimeLimit, links, expiry,
                            clock)
        IN /\ r.issued <= MaxCodes
           /\ store' = r.store
           /\ issued' = r.issued
           /\ defaultTimeLimit' = r.limit
           /\ UNCHANGED <<clock, pending>>

NextIndex == Tick \/ ShortenReqIndex \/ BatchReqIndex

SpecIndex == Init /\ [][NextIndex]_vars

(* ------------------------------ the claims ---------------------------- *)

\* The stored records of a link, and the one POST /shorten works on.
recordsOf(st, link) == getFullList(st, <<link>>)
hasRecord(st, link) == Len(recordsOf(st, link)) > 0
firstRecord(st, link) == recordsOf(st, link)[1]

\* POST /shorten and POST /urls/batch taken in the current state.
shortenNow(link, expiry) == Shorten(store, issued, link, expiry, clock)
batchNow(items, expiry) == Batch(store, issued, Arr(items), expiry, clock)

codesOf(st) == {st[i].shortCode : i \in 1..Len(st)}

suppliedExpiry(expiry) ==
    IF expiry.kind = "absent" THEN Num(DEFAULT_TIME_LIMIT)
    ELSE parseInt(expiry)

\* C2 as stated: a POST /shorten for a link whose record has
\* now > created + (the supplied expiry, else 3600000) gives the record a
\* new shortCode, stores that expiry, leaves created, id and originalUrl,
\* adds no record and returns the new shortCode.
C2_RotatesWhenExpired ==
    \A link \in Links, expiry \in AnyExpiry :
        hasRecord(store, link) =>
            LET record == firstRecord(store, link)
                e == suppliedExpiry(expiry)
                r == shortenNow(link, expiry)
                after == byId(r.store, record.id)
            IN (~e.nan /\ clock > record.created + e.n) =>
                  /\ after.shortCode # record.shortCode
                  /\ after.shortCode \notin codesOf(store)
                  /\ after.expiry = NumberToString(e)
                  /\ after.created = record.created
                  /\ after.originalUrl = record.originalUrl
                  /\ Len(r.store) = Len(store)
                  /\ r.resp.shortCode = after.shortCode

within(E, t) == {u \in Instants : ~E.nan /\ t <= u /\ u <= t + E.n}

atMostOnePerUrl(st) ==
    \A i, j \in 1..Len(st) : st[i].originalUrl = st[j].originalUrl => i = j

decision(before, after) ==
    IF Len(after) > Len(before) THEN "created"
    ELSE IF codesOf(after) # codesOf(before) THEN "rotated"
    ELSE "refreshed"

createdAndExpiry(st) ==
    [i \in 1..Len(st) |-> <<st[i].created, st[i].expiry>>]

\* C6 as stated: with at most one record per URL, POST /urls/batch with
\* links=[u] takes the decision POST /shorten takes for u with the same
\* expiry at the same instant and leaves the same created and expiry
\* values in the store.
C6_BatchOfOneIsShorten ==
    atMostOnePerUrl(store) =>
        \A link \in Links, expiry \in AnyExpiry :
            LET s == shortenNow(link, expiry)
                b == batchNow(<<link>>, expiry)
            IN /\ decision(store, b.store) = decision(store, s.store)
               /\ createdAndExpiry(b.store) = createdAndExpiry(s.store)

\* C7: a batch whose links array holds twice a link that has no record
\* yields two 'created' entries with different shortCodes and adds two
\* records for the link; the second occurrence does not see the first
\* one's write.
C7_RepeatedNewLinkCreatedTwice ==
    \A link \in Links, expiry \in AnyExpiry :
        ~hasRecord(store, link) =>
            LET r == batchNow(<<link, link>>, expiry)
                res == r.resp.results
                n == Len(store)
            IN /\ r.resp.status = 200
               /\ Len(res) = 2
               /\ res[1].action = "created" /\ res[2].action = "created"
               /\ res[1].link = link /\ res[2].link = link
               /\ res[1].shortCode # res[2].shortCode
               /\ Len(r.store) = n + 2
               /\ SubSeq(r.store, 1, n) = store
               /\ r.store[n + 1].originalUrl = link
               /\ r.store[n + 2].originalUrl = link
               /\ r.store[n + 1].shortCode = res[1].shortCode
               /\ r.store[n + 2].shortCode = res[2].shortCode

\* The store after such a batch: two records of one link with different
\* codes, stamped at the same instant.
C7_Witness ==
    \E i, j \in 1..Len(store) :
        /\ i < j
        /\ store[i].originalUrl = store[j].originalUrl
        /\ store[i].shortCode # store[j].shortCode
        /\ store[i].created = store[j].created
        /\ store[i].created = clock

\* The record a batch entry for a link is decided on.
batchRecord(st, link) == existingMap(recordsOf(st, link), 1, EmptyMap)[link]

Unparsable == {e \in AnyExpiry : e.kind = "str" /\ parseIntText(e.str).nan}

\* C9 as stated: a request whose expiry is present but parses to no
\* integer is processed exactly as if expiry had been omitted.
C9_UnparsableExpiryIsDefault ==
    \A expiry \in Unparsable :
        /\ \A link \in Links :
              shortenNow(link, expiry) = shortenNow(link, Absent)
        /\ \A items \in LinkArrays :
              batchNow(items, expiry) = batchNow(items, Absent)

IsNonNegativeIntegerText(s) ==
    /\ Len(s) > 0
    /\ \A i \in 1..Len(s) : IsDigit(s[i])

\* C10 as stated: the expiry of every stored record is the text of a
\* non-negative integer.
C10_ExpiryIsNonNegativeInteger ==
    \A i \in 1..Len(store) : IsNonNegativeIntegerText(store[i].expiry)

\* The expiry C11 names: the stored expiry parsed as an integer, or
\* 3600000 when it parses to none.
claimedExpiry(record) ==
    LET parsed == parseIntText(record.expiry)
    IN IF parsed.nan THEN DEFAULT_TIME_LIMIT ELSE parsed.n

RECURSIVE sumCounts(_, _)
sumCounts(groups, i) ==
    IF i > Len(groups) THEN 0 ELSE groups[i].count + sumCounts(groups, i + 1)

\* C11 as stated: GET /stats/active at instant now returns as
\* activeRecords exactly the stored records with created + e > now, e the
\* stored expiry parsed as an integer or 3600000 when it is unparsable;
\* total is the number of those records and the sum of the counts of the
\* date groups.
C11_StatsListsActiveByStoredExpiry ==
    LET r == StatsActive(store, clock)
    IN /\ r.activeRecords =
              SelectSeq(store,
                  LAMBDA rec : rec.created + claimedExpiry(rec) > clock)
       /\ r.total = Len(r.activeRecords)
       /\ r.total = sumCounts(r.groups, 1)

\* The orders a list call may return the stored records in.
Permutations(n) ==
    {p \in [1..n -> 1..n] : \A i, j \in 1..n : p[i] = p[j] => i = j}

reordered(st, p) == [i \in 1..Len(st) |-> st[p[i]]]

\* C12: for every links array of length n a successful POST /urls/batch
\* returns exactly n result entries, the i-th for links[i], duplicates
\* included, in whatever order the store lists the records.
C12_BatchResultsFollowLinks ==
    \A p \in Permutations(Len(store)) :
        LET listedAs == reordered(store, p)
        IN \A items \in LinkArrays, expiry \in {Absent, JStr(<<"x">>)} :
              LET res == Batch(listedAs, issued, Arr(items), expiry, clock).resp
              IN /\ res.status = 200
                 /\ Len(res.results) = Len(items)
                 /\ \A i \in 1..Len(items) : res.results[i].link = items[i]

\* The store lists the record of u2 before that of u1, one of them
\* expired and the other not, and a batch for [u1, u2] answers in the
\* order of its links.
C12_Witness ==
    /\ Len(store) = 2
    /\ store[1].originalUrl = "u2"
    /\ store[2].originalUrl = "u1"
    /\ store[1].created < store[2].created
    /\ LET res == batchNow(<<"u1", "u2">>, Absent).resp.results
       IN /\ Len(res) = 2
          /\ res[1].link = "u1" /\ res[1].shortCode = store[2].shortCode
          /\ res[2].link = "u2" /\ res[2].shortCode # store[1].shortCode

\* C13: when a store call (list, create or update) of a POST /urls/batch
\* rejects, the request stops there: the calls made are the list call and
\* one call for each link up to the rejected one, which is made once, none
\* for a later link, and the answer is status 500 without result entries.
C13_StoreFailureAbortsBatch ==
    \A items \in LinkArrays, expiry \in AnyExpiry :
        \A failAt \in 1..(Len(items) + 1) :
            Len(items) > 0 =>
                LET r == BatchFailing(store, issued, Arr(items), expiry,
                                      clock, failAt)
                IN /\ r.resp.status = 500
                   /\ r.resp.results = <<>>
                   /\ Len(r.calls) = failAt
                   /\ r.calls[1] = ListCall
                   /\ \A k \in 2..Len(r.calls) : r.calls[k] = WriteCall(k - 1)

\* An earlier request was left by a rejected create (a code was handed
\* out, the store is empty); a batch for two links whose second create is
\* rejected has made the list call and two creates, and answers 500.
C13_Witness ==
    /\ store = <<>>
    /\ issued > 0
    /\ LET r == BatchFailing(store, issued, Arr(<<"u1", "u2">>), Absent,
                             clock, 3)
       IN /\ r.resp.status = 500
          /\ r.calls = <<ListCall, WriteCall(1), WriteCall(2)>>
          /\ Len(r.store) = 1

\* C14: a POST /shorten without a link and a POST /urls/batch whose links
\* is absent or no array are answered with status 400 and make no store
\* call, so that no rejection of a store call can reach them and the
\* store is left unchanged.
C14_InvalidRequestMakesNoStoreCall ==
    \A expiry \in AnyExpiry, failAt \in FailAts :
        LET s == ShortenFailing(store, issued, NoLink, expiry, clock, failAt)
            b == BatchFailing(store, issued, NotArray, expiry, clock, failAt)
        IN /\ s.resp.status = 400
           /\ s.resp.message = "Link is required."
           /\ s.calls = <<>>
           /\ s.store = store
           /\ b.resp.status = 400
           /\ b.resp.message = "Links must be provided as an array."
           /\ b.calls = <<>>
           /\ b.store = store

\* The store holds records, and the same requests with a link, or with a
\* links array, would write to it.
C14_Witness ==
    /\ Len(store) > 0
    /\ ShortenFailing(store, issued, NoLink, Absent, clock, 1).resp.status = 400
    /\ BatchFailing(store, issued, NotArray, Absent, clock, 1).calls = <<>>
    /\ ShortenFailing(store, issued, store[1].originalUrl, Absent, clock, 0)
           .store # store
    /\ BatchFailing(store, issued, Arr(<<store[1].originalUrl>>), Absent,
                    clock, 1).resp.status = 500

\* C20 as stated: a POST /urls/batch that ends with status 500 because a
\* store call was rejected leaves the store exactly as it was before the
\* batch.
C20_FailedBatchLeavesStore ==
    \A items \in LinkArrays, expiry \in AnyExpiry, failAt \in FailAts :
        LET r == BatchFailing(store, issued, Arr(items), expiry, clock, failAt)
        IN r.resp.status = 500 => r.store = store

\* The write of the request in slot p, taken in the current state.
writeNow(p) ==
    ShortenOn(store, issued, pending[p].link, pending[p].expiry,
              pending[p].now, pending[p].existingRecords, clock)

\* C15: a POST /shorten whose lookup found no record of its link creates
\* one when it resumes, whatever has been written since: of two requests
\* for one new link that both looked up before either wrote, the second
\* to write adds a second record of the link, with a shortCode of its own.
C15_OverlappingRequestsBothCreate ==
    \A p \in Slots :
        (pending[p].busy /\ pending[p].existingRecords = <<>>) =>
            LET r == writeNow(p)
                new == r.store[Len(r.store)]
            IN /\ r.action = "created"
               /\ Len(r.store) = Len(store) + 1
               /\ SubSeq(r.store, 1, Len(store)) = store
               /\ new.originalUrl = pending[p].link
               /\ new.shortCode \notin codesOf(store)
               /\ r.resp.shortCode = new.shortCode

\* Two requests for one link looked up while it had no record; one has
\* written its record, the other is about to: its write leaves two
\* records of the link with different shortCodes.
C15_Witness ==
    \E p \in Slots :
        /\ pending[p].busy
        /\ pending[p].existingRecords = <<>>
        /\ Len(store) = 1
        /\ store[1].originalUrl = pending[p].link
        /\ pending[p].now <= store[1].created
        /\ LET after == writeNow(p).store
           IN /\ Len(after) = 2
              /\ after[2].originalUrl = after[1].originalUrl
              /\ after[2].shortCode # after[1].shortCode

\* The instants not before t.
from(t) == {u \in Instants : u >= t}

leftBy(r) == [store |-> r.store, issued |-> r.issued, limit |-> r.limit]

\* The requests of the src/index.js edition that supply `expiry`, taken
\* in the current state.
suppliedNow(expiry) ==
    {leftBy(ShortenIndex(store, issued, defaultTimeLimit, link, expiry,
                         clock)) : link \in Links}
    \cup
    {leftBy(BatchIndex(store, issued, defaultTimeLimit, Arr(q), expiry,
                       clock)) : q \in LinkArrays}

listed(record) ==
    LET active == StatsActive(store, clock).activeRecords
    IN \E k \in 1..Len(active) : active[k].id = record.id

\* C18 as stated: at every instant GET /stats/active lists a stored record
\* as active if and only if a POST /shorten for the record's URL with no
\* expiry at that instant keeps the record's shortCode (refreshes it)
\* rather than rotates it.
C18_StatsAgreesWithShorten ==
    \A i \in 1..Len(store) :
        LET record == store[i]
            r == shortenNow(record.originalUrl, Absent)
        IN listed(record) <=>
              byId(r.store, record.id).shortCode = record.shortCode

\* C19 as stated: when a POST /urls/batch has run, every result entry's
\* shortCode is the shortCode of a stored record whose originalUrl is the
\* entry's link, for every links array, repeated links and links with an
\* expired record included.
C19_BatchResultCodesAreStored ==
    \A items \in LinkArrays, expiry \in AnyExpiry :
        LET r == batchNow(items, expiry)
            res == r.resp.results
        IN \A i \in 1..Len(res) :
              \E k \in 1..Len(r.store) :
                 /\ r.store[k].originalUrl = res[i].link
                 /\ r.store[k].shortCode = res[i].shortCode

====
